---- MODULE Spec2Model ----
(***************************************************************************)
(* Model of the 404 page fetcher (src/fetch.py): the POST handler of       *)
(* index() (normalise, join, GET, sanitize, store) and view_page().        *)
(*                                                                         *)
(* Strings are sequences of one-character strings.  The fixed marker       *)
(* "404-collector-" and a uuid4().hex value each count as one character    *)
(* that is neither "/" nor ":" nor whitespace.  HTML is a sequence of      *)
(* tokens (start tag, end tag, void tag, text).  URLs are built from the   *)
(* characters of scheme_chars, "/", ":" and " ": no query, no fragment,    *)
(* no dot segment, no upper case.                                          *)
(***************************************************************************)
EXTENDS Integers, Sequences, FiniteSets, TLC

VARIABLES pages, issued, pc, form, base, path, fetched_url, status_code, page_id,
          error, html_content, resp, gets, viewed

vars == <<pages, issued, pc, form, base, path, fetched_url, status_code, page_id,
          error, html_content, resp, gets, viewed>>

(* ------------------------------ bounds -------------------------------- *)
NumReq == 2
MaxIds == 3
MaxBaseLen == 3
MaxHtmlLen == 3

(* ------------------------- Python str methods ------------------------- *)
Whitespace == {" ", "\t"}

startswith(s, prefix) ==
  /\ Len(s) >= Len(prefix)
  /\ SubSeq(s, 1, Len(prefix)) = prefix

RECURSIVE lstrip(_, _)
lstrip(s, chars) ==
  IF s # <<>> /\ Head(s) \in chars THEN lstrip(Tail(s), chars) ELSE s

RECURSIVE rstrip(_, _)
rstrip(s, chars) ==
  IF s # <<>> /\ s[Len(s)] \in chars
  THEN rstrip(SubSeq(s, 1, Len(s) - 1), chars)
  ELSE s

strip(s) == rstrip(lstrip(s, Whitespace), Whitespace)

\* s.find(c): index of the first c in s (1-based), 0 when absent
find(s, c) ==
  IF \E i \in 1..Len(s) : s[i] = c
  THEN CHOOSE i \in 1..Len(s) : s[i] = c /\ \A k \in 1..(i - 1) : s[k] # c
  ELSE 0

\* s.split(sep): the segments between separators, as a sequence of strings
RECURSIVE split(_, _)
split(s, sep) ==
  LET i == find(s, sep)
  IN  IF i = 0 THEN <<s>>
      ELSE <<SubSeq(s, 1, i - 1)>> \o split(SubSeq(s, i + 1, Len(s)), sep)

\* sep.join(parts)
RECURSIVE join(_, _)
join(parts, sep) ==
  IF parts = <<>> THEN <<>>
  ELSE IF Len(parts) = 1 THEN parts[1]
  ELSE parts[1] \o <<sep>> \o join(Tail(parts), sep)

\* filter(None, parts): drop the empty strings
RECURSIVE filterNonEmpty(_)
filterNonEmpty(parts) ==
  IF parts = <<>> THEN <<>>
  ELSE IF Head(parts) = <<>> THEN filterNonEmpty(Tail(parts))
  ELSE <<Head(parts)>> \o filterNonEmpty(Tail(parts))

(* ------------------------------ literals ------------------------------ *)
HTTP == <<"h", "t", "t", "p">>
HTTPS == <<"h", "t", "t", "p", "s">>
FTP == <<"f", "t", "p">>
SchemeHttp == HTTP \o <<":", "/", "/">>
SchemeHttps == HTTPS \o <<":", "/", "/">>
Marker == "404-collector-"

(* --------------------------- urllib.parse ----------------------------- *)
\* the letters of the model's alphabet (scheme_chars of urllib.parse)
scheme_chars == {"h", "t", "p", "s", "f", "a", "b", "x", "y"}
uses_relative == {HTTP, HTTPS, FTP, <<>>}
uses_netloc == {HTTP, HTTPS, FTP, <<>>}

\* urlsplit(url, scheme): scheme, netloc and path ("?" and "#" are not in
\* the alphabet, so query and fragment are always empty)
urlsplit(url, default) ==
  LET i == find(url, ":")
      hasScheme == i > 1 /\ \A k \in 1..(i - 1) : url[k] \in scheme_chars
      rest == IF hasScheme THEN SubSeq(url, i + 1, Len(url)) ELSE url
      hasNetloc == startswith(rest, <<"/", "/">>)
      after == SubSeq(rest, 3, Len(rest))
      j == find(after, "/")
  IN  [scheme |-> IF hasScheme THEN SubSeq(url, 1, i - 1) ELSE default,
       netloc |-> IF ~hasNetloc THEN <<>>
                  ELSE IF j = 0 THEN after ELSE SubSeq(after, 1, j - 1),
       path   |-> IF ~hasNetloc THEN rest
                  ELSE IF j = 0 THEN <<>> ELSE SubSeq(after, j, Len(after))]

urlunsplit(scheme, netloc, p) ==
  LET withNetloc ==
        IF netloc # <<>>
           \/ (scheme # <<>> /\ scheme \in uses_netloc
               /\ ~startswith(p, <<"/", "/">>))
        THEN <<"/", "/">> \o netloc
             \o (IF p # <<>> /\ p[1] # "/" THEN <<"/">> \o p ELSE p)
        ELSE p
  IN  IF scheme # <<>> THEN scheme \o <<":">> \o withNetloc ELSE withNetloc

urljoin(b, url) ==
  IF b = <<>> THEN url
  ELSE IF url = <<>> THEN b
  ELSE
    LET bp == urlsplit(b, <<>>)
        up == urlsplit(url, bp.scheme)
        base_parts0 == split(bp.path, "/")
        base_parts == IF base_parts0[Len(base_parts0)] # <<>>
                      THEN SubSeq(base_parts0, 1, Len(base_parts0) - 1)
                      ELSE base_parts0
        joined == base_parts \o split(up.path, "/")
        segments ==
          IF startswith(up.path, <<"/">>) THEN split(up.path, "/")
          ELSE IF Len(joined) <= 2 THEN joined
          ELSE <<joined[1]>>
               \o filterNonEmpty(SubSeq(joined, 2, Len(joined) - 1))
               \o <<joined[Len(joined)]>>
        resolved == join(segments, "/")
    IN  IF up.scheme # bp.scheme \/ up.scheme \notin uses_relative THEN url
        ELSE IF up.scheme \in uses_netloc /\ up.netloc # <<>>
             THEN urlunsplit(up.scheme, up.netloc, up.path)
        ELSE IF up.path = <<>>
             THEN urlunsplit(up.scheme, bp.netloc, bp.path)
        ELSE urlunsplit(up.scheme, bp.netloc,
                        IF resolved = <<>> THEN <<"/">> ELSE resolved)

(* -------------------------- HTML as tokens ---------------------------- *)
StartTag(n) == [kind |-> "start", name |-> n, href |-> <<>>, slash |-> FALSE]
EndTag(n)   == [kind |-> "end", name |-> n, href |-> <<>>, slash |-> FALSE]
Text(s)     == [kind |-> "text", name |-> s, href |-> <<>>, slash |-> FALSE]
\* <base href="h"> (slash FALSE) or <base href="h"/> (slash TRUE)
BaseTag(h, sl) == [kind |-> "void", name |-> "base", href |-> h, slash |-> sl]

\* a parsed document: its nodes in document order, each with its depth in
\* the tree; raw marks a token that html.parser delivered as character
\* data of an enclosing script element
Node(t, d, r) == [tok |-> t, depth |-> d, raw |-> r]

\* Tag._popToTag(name): close the open elements down to the most recent
\* one called name; an end tag with no open element is ignored
popToTag(stack, n) ==
  IF \E i \in 1..Len(stack) : stack[i] = n
  THEN LET i == CHOOSE k \in 1..Len(stack) :
                  stack[k] = n /\ \A m \in (k + 1)..Len(stack) : stack[m] # n
       IN  SubSeq(stack, 1, i - 1)
  ELSE stack

\* BeautifulSoup(markup, 'html.parser'): the tolerant parse.  A script start
\* tag switches html.parser to CDATA mode: everything up to the next
\* </script> is character data of the script element.  What follows a
\* script that is never closed is kept here as its character data (some
\* versions of html.parser drop it instead): either way it is inside the
\* script element and goes with it.
RECURSIVE feed(_, _, _, _, _)
feed(toks, i, nodes, stack, cdata) ==
  IF i > Len(toks) THEN nodes
  ELSE
    LET t == toks[i]
        d == Len(stack)
    IN  IF cdata
        THEN IF t.kind = "end" /\ t.name = "script"
             THEN feed(toks, i + 1, nodes, popToTag(stack, "script"), FALSE)
             ELSE feed(toks, i + 1, Append(nodes, Node(t, d, TRUE)), stack, TRUE)
        ELSE IF t.kind = "start"
             THEN feed(toks, i + 1, Append(nodes, Node(t, d, FALSE)),
                       Append(stack, t.name), t.name = "script")
        ELSE IF t.kind = "end"
             THEN feed(toks, i + 1, nodes, popToTag(stack, t.name), FALSE)
        ELSE feed(toks, i + 1, Append(nodes, Node(t, d, FALSE)), stack, FALSE)

BeautifulSoup(markup) == feed(markup, 1, <<>>, <<>>, FALSE)

IsScript(n) == ~n.raw /\ n.tok.kind = "start" /\ n.tok.name = "script"

\* tag.decompose(): remove node i and its subtree
decompose(nodes, i) ==
  LET last == IF \E j \in (i + 1)..Len(nodes) : nodes[j].depth <= nodes[i].depth
              THEN (CHOOSE j \in (i + 1)..Len(nodes) :
                      /\ nodes[j].depth <= nodes[i].depth
                      /\ \A k \in (i + 1)..(j - 1) :
                           nodes[k].depth > nodes[i].depth) - 1
              ELSE Len(nodes)
  IN  SubSeq(nodes, 1, i - 1) \o SubSeq(nodes, last + 1, Len(nodes))

\* for tag in soup(['script']): tag.decompose()
\* a sanitizer that forgets to remove the script elements
removeScriptsMut(nodes) == nodes

RECURSIVE removeScripts(_)
removeScripts(nodes) ==
  IF \E i \in 1..Len(nodes) : IsScript(nodes[i])
  THEN LET i == CHOOSE k \in 1..Len(nodes) :
                  IsScript(nodes[k]) /\ \A m \in 1..(k - 1) : ~IsScript(nodes[m])
       IN  removeScripts(decompose(nodes, i))
  ELSE nodes

\* the end tags of the open elements from depth d upwards, innermost first
RECURSIVE closeTo(_, _)
closeTo(stack, d) ==
  IF Len(stack) <= d THEN <<>>
  ELSE <<EndTag(stack[Len(stack)])>>
       \o closeTo(SubSeq(stack, 1, Len(stack) - 1), d)

\* str(soup): every element gets its end tag, a void element is written
\* <base .../>
RECURSIVE decode(_, _, _)
decode(nodes, i, stack) ==
  IF i > Len(nodes) THEN closeTo(stack, 0)
  ELSE
    LET n == nodes[i]
        open == SubSeq(stack, 1, n.depth)
        out == IF n.raw THEN n.tok
               ELSE IF n.tok.kind = "void" THEN BaseTag(n.tok.href, TRUE)
               ELSE n.tok
    IN  closeTo(stack, n.depth) \o <<out>>
        \o decode(nodes, i + 1,
                  IF ~n.raw /\ n.tok.kind = "start"
                  THEN Append(open, n.tok.name) ELSE open)

str(soup) == decode(soup, 1, <<>>)

\* lines 169-176: the sanitized copy of a 404 body
sanitize(text, url) ==
  <<BaseTag(url, FALSE), Text("\n")>>
    \o str(removeScripts(BeautifulSoup(text)))

(* ------------------------------ inputs -------------------------------- *)
SeqUpTo(A, n) == UNION {[1..k -> A] : k \in 0..n}

Req == 1..NumReq
OneReq == {1}

\* uuid.uuid4().hex: a value never returned before
Ids == {ToString(i) : i \in 1..MaxIds}
\* a generator that may repeat a value
uuid4Mut == Ids
uuid4 == Ids \ issued

HostA == <<"a">>
UrlAX == SchemeHttp \o <<"a", "/", "x">>
UrlB == SchemeHttp \o <<"b">>

\* form values of the url field
FewBases == {<<" ">>, <<"a">>}
BaseTails == SeqUpTo({" ", "/", "a"}, MaxBaseLen)
ManyBases ==
  BaseTails
    \cup {SchemeHttp \o t : t \in BaseTails}
    \cup {SchemeHttps \o t : t \in BaseTails}
    \cup {FTP \o <<":", "/", "/", "a">>, <<"h", "t", "t", "p", ":", "/", "a">>,
          <<"a", "/", "b", "/">>, SchemeHttp \o SchemeHttp \o <<"a">>}

\* form values of the path field
FewPaths == {<<"x">>}
ManyPaths == {<<>>, <<" ">>, <<"x">>, <<"/", "x">>, <<"/">>, <<" ", "/", "/", "x", "/", "y", " ">>,
              SchemeHttp \o <<"b", "/", "y">>, <<"x", ":", "y">>}

\* 404 bodies
Page404 == <<StartTag("html"), StartTag("body"), StartTag("script"),
             Text("alert(1)"), EndTag("script"), StartTag("p"),
             Text("missing"), EndTag("p"), EndTag("body"), EndTag("html")>>
FewBodies == {Page404, <<Text("gone")>>}
HtmlTokens == {StartTag("div"), EndTag("div"), StartTag("script"),
               EndTag("script"), Text("alert(1)"),
               BaseTag(UrlAX, FALSE), BaseTag(UrlB, FALSE)}
ManyBodies == SeqUpTo(HtmlTokens, MaxHtmlLen) \cup {Page404}

StatusCodes == {200, 404}
ManyStatusCodes == {200, 301, 404, 500}
\* resp.url at the end of the redirect chain, when a redirect was followed
RedirectTargets == {UrlB \o <<"/", "y">>}
\* str(e) of the exceptions requests.get raises
Failures == {"timed out", "certificate verify failed"}
\* the <page_id> of a /view/ request
ViewIds == Ids \cup {"not-an-id"}

NoResponse == [status_code |-> 0, text |-> <<>>, url |-> <<>>]
NoView == [page_id |-> "", status |-> 0, body |-> <<>>]

(* ------------------------------- state -------------------------------- *)
\* None is the empty value of each type: <<>>, 0, ""
Init ==
  /\ pages = <<>>
  /\ issued = {}
  /\ pc = [r \in Req |-> "idle"]
  /\ form = [r \in Req |-> [url |-> <<>>, path |-> <<>>]]
  /\ base = [r \in Req |-> <<>>]
  /\ path = [r \in Req |-> <<>>]
  /\ fetched_url = [r \in Req |-> <<>>]
  /\ status_code = [r \in Req |-> 0]
  /\ page_id = [r \in Req |-> ""]
  /\ error = [r \in Req |-> <<>>]
  /\ html_content = [r \in Req |-> <<>>]
  /\ resp = [r \in Req |-> NoResponse]
  /\ gets = [r \in Req |-> 0]
  /\ viewed = NoView

(* ------------------------------ index() ------------------------------- *)
\* lines 144-146
\* a normalisation that prepends the scheme unconditionally
normalizeMut(b) == rstrip(SchemeHttp \o b, {"/"})
normalize(b) ==
  rstrip(IF ~(startswith(b, SchemeHttp) \/ startswith(b, SchemeHttps))
         THEN SchemeHttp \o b ELSE b, {"/"})

\* line 154
resolve(b, p) == urljoin(b \o <<"/">>, p)

\* pages[page_id] = html_content
\* rebinding the mapping to a new one-entry dict instead of inserting
setitemMut(d, k, v) == [x \in {k} |-> v]
setitem(d, k, v) ==
  [x \in DOMAIN d \cup {k} |-> IF x = k THEN v ELSE d[x]]

\* requests raises InvalidURL for a URL without a host
HasHost(url) == urlsplit(url, <<>>).netloc # <<>>

\* lines 137-138: request.form.get(name, '').strip()
formValueMut(v) == v
formValue(v) == strip(v)

\* line 167
\* a handler that stores whatever status came back
is404Mut(code) == TRUE
is404(code) == code = 404

\* lines 136-164: the form is read and checked, the URL built, the GET sent
Submit(r, b, p) ==
  /\ pc[r] = "idle"
  /\ form' = [form EXCEPT ![r] = [url |-> b, path |-> p]]
  /\ IF formValue(b) = <<>>
     THEN /\ error' = [error EXCEPT ![r] = <<"You must enter a site URL.">>]
          /\ base' = [base EXCEPT ![r] = formValue(b)]
          /\ path' = [path EXCEPT ![r] = formValue(p)]
          /\ pc' = [pc EXCEPT ![r] = "done"]
          /\ UNCHANGED <<issued, fetched_url, gets>>
     ELSE /\ base' = [base EXCEPT ![r] = normalize(formValue(b))]
          /\ \E np \in IF formValue(p) # <<>> THEN {lstrip(formValue(p), {"/"})}
                       ELSE {<<Marker, u>> : u \in uuid4} :
               /\ path' = [path EXCEPT ![r] = np]
               /\ issued' = IF formValue(p) # <<>> THEN issued
                            ELSE issued \cup {np[2]}
               /\ fetched_url' = [fetched_url EXCEPT ![r] = resolve(base'[r], np)]
          /\ gets' = [gets EXCEPT ![r] = @ + 1]
          /\ pc' = [pc EXCEPT ![r] = "fetching"]
          /\ UNCHANGED error
  /\ UNCHANGED <<pages, status_code, page_id, html_content, resp, viewed>>

\* lines 164-182: the response arrives; a 404 is sanitized and given an id
Receive(r, code, text, url) ==
  /\ pc[r] = "fetching"
  /\ HasHost(fetched_url[r])
  /\ resp' = [resp EXCEPT ![r] = [status_code |-> code, text |-> text, url |-> url]]
  /\ status_code' = [status_code EXCEPT ![r] = code]
  /\ IF is404(code)
     THEN /\ html_content' = [html_content EXCEPT ![r] = sanitize(text, fetched_url[r])]
          /\ \E u \in uuid4 :
               /\ page_id' = [page_id EXCEPT ![r] = u]
               /\ issued' = issued \cup {u}
          /\ pc' = [pc EXCEPT ![r] = "store"]
          /\ UNCHANGED error
     ELSE /\ error' = [error EXCEPT ![r] =
                 <<"hey!!! that's not a 404, that's a ", ToString(code),
                   " (working link)!!!">>]
          /\ pc' = [pc EXCEPT ![r] = "done"]
          /\ UNCHANGED <<html_content, page_id, issued>>
  /\ UNCHANGED <<pages, form, base, path, fetched_url, gets, viewed>>

\* line 180, then the page is rendered (lines 186-192)
Store(r) ==
  /\ pc[r] = "store"
  /\ pages' = setitem(pages, page_id[r], html_content[r])
  /\ pc' = [pc EXCEPT ![r] = "done"]
  /\ UNCHANGED <<issued, form, base, path, fetched_url, status_code, page_id,
                 error, html_content, resp, gets, viewed>>

\* lines 183-184: requests.get raised
\* a handler that tries the GET a second time before giving up
FailMut(r, msg) ==
  /\ pc[r] = "fetching"
  /\ gets' = [gets EXCEPT ![r] = @ + 1]
  /\ error' = [error EXCEPT ![r] = <<msg>>]
  /\ pc' = [pc EXCEPT ![r] = "done"]
  /\ UNCHANGED <<pages, issued, form, base, path, fetched_url, status_code,
                 page_id, html_content, resp, viewed>>

Fail(r, msg) ==
  /\ pc[r] = "fetching"
  /\ error' = [error EXCEPT ![r] = <<msg>>]
  /\ pc' = [pc EXCEPT ![r] = "done"]
  /\ UNCHANGED <<pages, issued, form, base, path, fetched_url, status_code,
                 page_id, html_content, resp, gets, viewed>>

(* ----------------------------- view_page() ---------------------------- *)
\* pages.get(page_id, '') in place of pages.get(page_id)
lookupMut(id) ==
  IF id \in DOMAIN pages
  THEN [page_id |-> id, status |-> 200, body |-> pages[id]]
  ELSE [page_id |-> id, status |-> 200, body |-> <<>>]

lookup(id) ==
  IF id \in DOMAIN pages
  THEN [page_id |-> id, status |-> 200, body |-> pages[id]]
  ELSE [page_id |-> id, status |-> 404, body |-> <<Text("Page not found")>>]

View(id) ==
  /\ viewed' = lookup(id)
  /\ UNCHANGED <<pages, issued, pc, form, base, path, fetched_url, status_code,
                 page_id, error, html_content, resp, gets>>

(* --------------------------- specifications --------------------------- *)
\* in: the values the environment may supply (form fields, responses, ids)
NextOver(R, in) ==
  \/ \E r \in R, b \in in.bases, p \in in.paths : Submit(r, b, p)
  \/ \E r \in R, code \in in.codes, text \in in.bodies :
       \E url \in {fetched_url[r]} \cup in.redirects : Receive(r, code, text, url)
  \/ \E r \in R : Store(r)
  \/ \E r \in R, msg \in Failures : Fail(r, msg)
  \/ \E id \in in.views : View(id)

\* concurrently handled requests
Next ==
  NextOver(Req, [bases |-> FewBases, paths |-> FewPaths, bodies |-> FewBodies,
                 codes |-> StatusCodes, redirects |-> RedirectTargets,
                 views |-> ViewIds])
Spec == Init /\ [][Next]_vars

\* one request, over many url and path values
NextResolve ==
  NextOver(OneReq, [bases |-> ManyBases, paths |-> ManyPaths,
                    bodies |-> {Page404}, codes |-> ManyStatusCodes,
                    redirects |-> {}, views |-> ViewIds])
SpecResolve == Init /\ [][NextResolve]_vars

\* one request, over many response bodies
NextSanitize ==
  NextOver(OneReq, [bases |-> {HostA}, paths |-> {<<"x">>},
                    bodies |-> ManyBodies, codes |-> {404},
                    redirects |-> {}, views |-> {"1", "not-an-id"}])
SpecSanitize == Init /\ [][NextSanitize]_vars

(* ------------------------------ claims -------------------------------- *)
NotA404(code) ==
  <<"hey!!! that's not a 404, that's a ", ToString(code), " (working link)!!!">>
FailureMessages == {<<m>> : m \in Failures}
Owners(id) == {r \in Req : page_id[r] = id}
IsBase(t, url) == t.kind = "void" /\ t.name = "base" /\ t.href = url
IsScriptTag(t) == t.kind \in {"start", "end"} /\ t.name = "script"
Count(h, Test(_)) == Cardinality({i \in 1..Len(h) : Test(h[i])})

\* the outcome of a call that got a status other than 404, and whose entries
\* the store holds; then the step that ends such a call
C1_Non404State ==
  /\ \A r \in Req :
       pc[r] = "done" /\ resp[r].status_code \notin {0, 404} =>
         /\ status_code[r] = resp[r].status_code
         /\ error[r] = NotA404(resp[r].status_code)
         /\ fetched_url[r] = resolve(base[r], path[r])
         /\ page_id[r] = ""
  /\ \A id \in DOMAIN pages :
       \E r \in Owners(id) : resp[r].status_code = 404 /\ status_code[r] = 404
C1_Non404Step ==
  \A r \in Req :
    pc[r] = "fetching" /\ pc'[r] # "fetching" /\ resp'[r].status_code # 404 =>
      pages' = pages /\ pc'[r] = "done"
\* C1: a call whose response has a status other than 404 ends with the error
\* naming that status and with the URL that resolve built, without an id; the
\* step that ends it leaves the store as it was, and every entry of the store
\* comes from a response with status 404.
C1_Non404LeavesStore == [](C1_Non404State) /\ [][C1_Non404Step]_vars
C1_Witness ==
  \E r \in Req : pc[r] = "done" /\ status_code[r] = 200 /\ pages # <<>>

\* C2: the URL reported to the caller, and the href of the prepended base
\* tag of a stored 404 page, is the URL at the end of the redirect chain.
C2_FinalUrlIsResolved ==
  \A r \in Req :
    pc[r] = "done" /\ status_code[r] # 0 =>
      /\ fetched_url[r] = resp[r].url
      /\ status_code[r] = 404 => pages[page_id[r]][1].href = resp[r].url

C4_EmptyState ==
  \A r \in Req :
    pc[r] # "idle" /\ strip(form[r].url) = <<>> =>
      /\ pc[r] = "done"
      /\ error[r] = <<"You must enter a site URL.">>
      /\ gets[r] = 0
      /\ fetched_url[r] = <<>> /\ status_code[r] = 0 /\ page_id[r] = ""
C4_EmptyStep ==
  \A r \in Req :
    pc[r] = "idle" /\ pc'[r] # "idle" /\ strip(form'[r].url) = <<>> =>
      pages' = pages /\ gets' = gets
\* C4: a url field that is empty after trimming ends the call with the
\* validation message, with no GET issued, no id, and the store untouched,
\* whatever the path field holds.
C4_EmptyBaseRejected == [](C4_EmptyState) /\ [][C4_EmptyStep]_vars
C4_Witness ==
  \E r \in Req :
    /\ pc[r] = "done" /\ form[r].url = <<" ", " ">>
    /\ form[r].path = SchemeHttp \o <<"b", "/", "y">>

\* what any step does to the entries already stored
C5_Step ==
  /\ \A id \in DOMAIN pages : id \in DOMAIN pages' /\ pages'[id] = pages[id]
  /\ viewed' # viewed => pages' = pages
\* C5: an entry of the store is never removed nor changed by any step, and
\* a view changes nothing in the store.
C5_StoredPageImmutable == [][C5_Step]_vars
C5_Witness ==
  /\ viewed.status = 200
  /\ viewed.page_id \in DOMAIN pages
  /\ Cardinality(DOMAIN pages) >= 2

\* C6: when all the requests handled concurrently have completed, the store
\* holds one entry per request that got a 404, under that request's id, with
\* the copy sanitized from that request's own body and URL.
C6_NoLostEntries ==
  (\A r \in Req : pc[r] = "done") =>
    LET got == {r \in Req : resp[r].status_code = 404}
    IN  /\ Cardinality(DOMAIN pages) = Cardinality(got)
        /\ \A r \in got :
             /\ page_id[r] \in DOMAIN pages
             /\ pages[page_id[r]] = sanitize(resp[r].text, fetched_url[r])
        /\ \A r1, r2 \in got : r1 # r2 => page_id[r1] # page_id[r2]
C6_Witness ==
  /\ \A r \in Req : pc[r] = "done" /\ resp[r].status_code = 404
  /\ \E r1, r2 \in Req : resp[r1].text # resp[r2].text

\* the outcome of a call whose GET raised, and the step that ends it
C7_FailState ==
  \A r \in Req :
    pc[r] = "done" /\ error[r] \in FailureMessages =>
      /\ gets[r] = 1
      /\ page_id[r] = "" /\ status_code[r] = 0
      /\ \A id \in DOMAIN pages : r \notin Owners(id)
C7_FailStep ==
  \A r \in Req :
    pc[r] = "fetching" /\ pc'[r] = "done" /\ resp'[r] = NoResponse =>
      /\ pages' = pages
      /\ error'[r] \in FailureMessages
      /\ gets'[r] = 1
      /\ \A r2 \in Req \ {r} :
           /\ pc'[r2] = pc[r2] /\ error'[r2] = error[r2]
           /\ page_id'[r2] = page_id[r2] /\ gets'[r2] = gets[r2]
\* C7: a GET that raises ends the call with the exception's message, no id
\* and no status code, after exactly one GET; the step leaves the store and
\* the other requests as they were, so that they go on being served.
C7_FetchErrorNoRetry == [](C7_FailState) /\ [][C7_FailStep]_vars
C7_Witness ==
  \E r1, r2 \in Req :
    /\ pc[r1] = "done" /\ error[r1] = <<"timed out">>
    /\ pc[r2] = "done" /\ page_id[r2] \in DOMAIN pages

\* the answer of a view, against the store it was made on
C8_Step ==
  viewed' # viewed =>
    /\ IF viewed'.page_id \in DOMAIN pages
       THEN viewed'.status = 200 /\ viewed'.body = pages[viewed'.page_id]
       ELSE viewed'.status = 404 /\ viewed'.body = <<Text("Page not found")>>
    /\ viewed'.page_id \notin issued => viewed'.status = 404
\* C8: a view of an id that is not in the store answers "Page not found"
\* with status 404, and a view of an id in the store answers its content;
\* an id that uuid4 never produced is never found.
C8_UnknownIdNotFound == [][C8_Step]_vars
C8_Witness ==
  /\ viewed.status = 404 /\ viewed.page_id = "not-an-id"
  /\ pages # <<>>

\* k slashes; the trimmed url with http:// in front if it names no scheme
Slashes(k) == [i \in 1..k |-> "/"]
WithScheme(b) ==
  IF startswith(b, SchemeHttp) \/ startswith(b, SchemeHttps)
  THEN b ELSE SchemeHttp \o b
\* C9: for a url field that is not empty after trimming, the normalized base
\* starts with a scheme, does not end in "/", and is the trimmed value, with
\* http:// put in front exactly when it starts with neither http:// nor
\* https://, less its trailing slashes; for the url "a" and a blank path the
\* fetched URL has the origin http://a.
C9_NormalizedBase ==
  \A r \in Req :
    pc[r] # "idle" /\ strip(form[r].url) # <<>> =>
      /\ startswith(base[r], HTTP \o <<":">>)
           \/ startswith(base[r], HTTPS \o <<":">>)
      /\ base[r][Len(base[r])] # "/"
      /\ \E k \in 0..Len(form[r].url) + 2 :
           base[r] \o Slashes(k) = WithScheme(strip(form[r].url))
      /\ ~startswith(base[r], SchemeHttp \o SchemeHttp)
           \/ startswith(strip(form[r].url), SchemeHttp)
      /\ strip(form[r].url) = HostA /\ strip(form[r].path) = <<>> =>
           /\ urlsplit(fetched_url[r], <<>>).scheme = HTTP
           /\ urlsplit(fetched_url[r], <<>>).netloc = HostA
           /\ \E u \in issued :
                fetched_url[r] = SchemeHttp \o HostA \o <<"/", Marker, u>>
C9_Witness ==
  \E r \in Req :
    /\ form[r].url = <<"a", "/", "/">>
    /\ base[r] = SchemeHttp \o HostA
    /\ form[r].path = <<>> /\ pc[r] = "fetching"

\* C10: at every moment the store holds one entry per call that returned an
\* id, each under its own id with its own copy, also when two calls stored
\* the same content.
C10_NoDeduplication ==
  LET ok == {r \in Req : pc[r] = "done" /\ page_id[r] # ""}
  IN  /\ Cardinality(DOMAIN pages) = Cardinality(ok)
      /\ \A r \in ok :
           page_id[r] \in DOMAIN pages /\ pages[page_id[r]] = html_content[r]
      /\ \A r1, r2 \in ok : r1 # r2 => page_id[r1] # page_id[r2]
C10_Witness ==
  \E r1, r2 \in Req :
    /\ r1 # r2
    /\ pc[r1] = "done" /\ pc[r2] = "done"
    /\ page_id[r1] # "" /\ page_id[r2] # ""
    /\ html_content[r1] = html_content[r2]
    /\ Cardinality(DOMAIN pages) = 2

====
